---- MODULE Spec2Model ----
(***************************************************************************)
(* State-machine model of the RYZE Recruiting backend: the identity store  *)
(* (users), the booking store, the employer-profile store, the OAuth       *)
(* opaque-token side store, and the HTTP handlers of app/api/bookings.py   *)
(* and app/api/auth.py.  Each action is one whole request handler; the     *)
(* outcomes of the external collaborators (Zoom, Google Calendar, the LLM  *)
(* brief, the mailer, the OAuth providers) are inputs drawn from small     *)
(* sets.                                                                   *)
(***************************************************************************)
EXTENDS Integers, Sequences, FiniteSets, TLC

VARIABLES users, bookings, nextBookingId, profiles, oauth_temp, nextToken,
          waitlist, now, inflight, last

vars == <<users, bookings, nextBookingId, profiles, oauth_temp, nextToken,
          waitlist, now, inflight, last>>

(***************************************************************************)
(* Bounds of the model.                                                    *)
(***************************************************************************)
MaxBookings == 1
MaxProfiles == 2
MaxSlotBookings == 2
MaxUsers == 4
MaxTokens == 2
MaxJoins == 3
MaxBriefBookings == 1
MaxRequests == 3

(***************************************************************************)
(* Values.  None is Python's None / SQL NULL for string-valued columns;    *)
(* NoId is NULL for integer foreign keys.                                  *)
(***************************************************************************)
None == "None"
NoId == 0

\* Python truthiness of an Optional[str]: None and "" are falsy.
Truthy(s) == s \notin {None, ""}

\* `x or ""` on an Optional[str].
OrEmpty(s) == IF s = None THEN "" ELSE s

ValidStatuses == {"pending", "confirmed", "cancelled"}
StatusInputs == ValidStatuses \cup {"archived"}

Dates == {"2026-03-01", "2026-03-02"}
TimeSlots == {"10:00 AM", "11:00 AM"}
Companies == {None, "acme"}
Websites == {None, "acme.com"}
Phones == {None}

\* Results of create_meeting: a join URL, or "fail" when the call raises.
JoinUrls == {"zoom/1", "zoom/2"}
ZoomOutcomes == JoinUrls \cup {"fail"}

\* Results of create_calendar_event: an event id, or None (it swallows
\* every exception and returns None).
CalendarOutcomes == {"ev1", None}

\* Results of generate_pre_call_brief, by shape of the value returned:
\*   "empty"   {}                         (any failure, or no API key)
\*   "full"    the six-key JSON object
\*   "raw"     {"ai_brief_raw": raw}      (the LLM text was not JSON)
\*   "nondict" a non-empty JSON array or string (json.loads accepts it)
\*   "nested"  a JSON object one of whose scalar fields is itself an object
BriefKinds == {"empty", "full", "raw", "nondict", "nested"}

\* brief_dict.get(key) for the scalar keys industry, estimated_size,
\* company_overview, red_flags.
BriefGet(kind, key) ==
    CASE kind = "full" -> key
      [] kind = "nested" -> IF key = "industry" THEN "<object>" ELSE key
      [] OTHER -> None

\* json.dumps(brief_dict.get(key, [])) for hiring_needs and talking_points.
BriefDumpList(kind, key) ==
    IF kind \in {"full", "nested"} THEN "[\"" \o key \o "\"]" ELSE "[]"

\* brief_dict.get("ai_brief_raw", "")
BriefRaw(kind) == IF kind = "raw" THEN "raw text" ELSE ""

\* bool(brief_dict)
BriefTruthy(kind) == kind /= "empty"

(***************************************************************************)
(* Rows.                                                                   *)
(***************************************************************************)
User(email, name, hashed, utype, provider, providerId, avatar, active, super) ==
    [email |-> email, full_name |-> name, hashed_password |-> hashed,
     user_type |-> utype, oauth_provider |-> provider,
     oauth_provider_id |-> providerId, avatar_url |-> avatar,
     is_active |-> active, is_superuser |-> super]

\* get_password_hash / verify_password of app.core.security
get_password_hash(pw) == "hash:" \o pw
verify_password(pw, hashed) == hashed = get_password_hash(pw)

Booking(uid, name, email, company, website, date, slot, phone) ==
    [employer_id |-> uid, employer_name |-> name, employer_email |-> email,
     company_name |-> company, website_url |-> website,
     date |-> date, time_slot |-> slot, phone |-> phone,
     status |-> "pending", meeting_url |-> None,
     calendar_event_id |-> None, employer_profile_id |-> NoId]

EmployerProfile(company, website, email, phone, uid) ==
    [company_name |-> company, website_url |-> website,
     primary_contact_email |-> email, phone |-> phone, user_id |-> uid,
     tenant_id |-> None,
     ai_industry |-> None, ai_company_size |-> None,
     ai_company_overview |-> None, ai_hiring_needs |-> None,
     ai_talking_points |-> None, ai_red_flags |-> None,
     ai_brief_raw |-> None, ai_brief_updated |-> FALSE,
     recruiter_notes |-> None, relationship_status |-> None]

\* One call of a collaborator: its name and whether it succeeded.
Call(fn, ok) == [fn |-> fn, ok |-> ok]

\* What the last request was (operation, caller, addressed row, requested
\* value), the status the addressed booking had when the request arrived,
\* what the request answered, which collaborators it called (in call
\* order) and the payload of the answer.
NoBody == <<>>

Reply(op, actor, target, req, old, code, calls, body) ==
    [op |-> op, actor |-> actor, target |-> target, req |-> req, arg |-> None,
     old |-> old, code |-> code, calls |-> calls, body |-> body]

(***************************************************************************)
(* Initial state: the seeded identities (no handler sets is_superuser or   *)
(* clears is_active, so an admin and a deactivated account exist only as   *)
(* seeded rows), empty booking, profile, waitlist and side stores.         *)
(***************************************************************************)
SeedUsers ==
    << User("admin@ryze", "Root", get_password_hash("password1"), "ADMIN",
            None, None, None, TRUE, TRUE),
       User("emp@acme", "Eve", get_password_hash("password1"), "EMPLOYER",
            None, None, None, TRUE, FALSE),
       User("off@acme", "Otto", get_password_hash("password1"), "EMPLOYER",
            None, None, None, FALSE, FALSE) >>

\* The set_status requests that worker threads serve, numbered as they
\* arrive; each is in flight between its read and its commit.
Requests == 1..MaxRequests

Init ==
    /\ users = SeedUsers
    /\ bookings = <<>>
    /\ nextBookingId = 1
    /\ profiles = <<>>
    /\ oauth_temp = <<>>
    /\ nextToken = 1
    /\ waitlist = <<>>
    /\ now = 1
    /\ inflight = [r \in Requests |-> <<>>]
    /\ last = Reply("init", NoId, NoId, None, None, 0, <<>>, NoBody)

BookingIds == DOMAIN bookings
UserIds == DOMAIN users

\* A guard that lets every authenticated user through.
require_admin_anyone(u) == TRUE

\* require_admin
require_admin(u) == users[u].is_superuser

(***************************************************************************)
(* POST /api/bookings                                                      *)
(***************************************************************************)
\* bookings.employer_name is NOT NULL: the INSERT of a NULL name fails at
\* db.commit() (IntegrityError), which create_booking does not catch.
NotNullViolation(name) == name = None

\* notify_booking_received swallows every failure of the mailer and of the
\* SMS gateway, so its outcome does not reach the handler.
create_booking(u, company, website, date, slot, phone, notifyOk) ==
    IF NotNullViolation(users[u].full_name)
    THEN /\ last' = Reply("create", u, NoId, "pending", None, 500, <<>>,
                          NoBody)
         /\ UNCHANGED <<inflight, users, bookings, nextBookingId, profiles, oauth_temp,
                        nextToken, waitlist, now>>
    ELSE /\ bookings' = (nextBookingId :>
                           Booking(u, users[u].full_name, users[u].email,
                                   company, website, date, slot, phone))
                        @@ bookings
         /\ nextBookingId' = nextBookingId + 1
         /\ last' = Reply("create", u, nextBookingId, "pending", None, 201,
                          <<Call("notify_booking_received", notifyOk)>>,
                          NoBody)
         /\ UNCHANGED <<inflight, users, profiles, oauth_temp, nextToken, waitlist,
                        now>>

\* Requests whose inputs are drawn from the given sets, at most cap
\* bookings ever created.
CreateBookingIn(cap, us, cs, ws, ds, ss) ==
    /\ nextBookingId <= cap
    /\ \E u \in us, company \in cs, website \in ws, date \in ds, slot \in ss,
          phone \in Phones, notifyOk \in BOOLEAN :
           create_booking(u, company, website, date, slot, phone, notifyOk)

(***************************************************************************)
(* GET /api/bookings/availability/{date}                                   *)
(***************************************************************************)
\* A query without the status filter.
TakenStatusesAll == ValidStatuses

\* Booking.status.in_(["pending", "confirmed"])
TakenStatuses == {"pending", "confirmed"}

\* A query without the date filter.
TakenRowsAnyDate(date) ==
    {b \in BookingIds : bookings[b].status \in TakenStatuses}

\* The rows the query selects.
TakenRows(date) ==
    {b \in BookingIds : /\ bookings[b].date = date
                        /\ bookings[b].status \in TakenStatuses}

\* The response lists one time slot per selected row (no DISTINCT, no
\* ORDER BY): the list is kept as the map from row to slot.
\* An answer that names every taken slot once.
taken_slots_distinct(date) ==
    [b \in {x \in TakenRows(date) :
              \A y \in TakenRows(date) :
                 bookings[y].time_slot = bookings[x].time_slot => x <= y}
       |-> bookings[b].time_slot]

taken_slots(date) == [b \in TakenRows(date) |-> bookings[b].time_slot]

get_availability(date) ==
    /\ last' = Reply("availability", NoId, NoId, date, None, 200, <<>>,
                     taken_slots(date))
    /\ UNCHANGED <<inflight, users, bookings, nextBookingId, profiles, oauth_temp,
                   nextToken, waitlist, now>>

GetAvailabilityIn(ds) == \E date \in ds : get_availability(date)

(***************************************************************************)
(* GET /api/bookings/my, GET /api/bookings, GET /api/bookings/{id}         *)
(***************************************************************************)
\* The answer of a read: the selected rows with their dates (the sort key).
Rows(ids) == [b \in ids |-> bookings[b].date]

ReadFinish(op, u, b, code, body) ==
    /\ last' = Reply(op, u, b, None, None, code, <<>>, body)
    /\ UNCHANGED <<inflight, users, bookings, nextBookingId, profiles, oauth_temp,
                   nextToken, waitlist, now>>

get_my_bookings(u) ==
    ReadFinish("my_bookings", u, NoId, 200,
               Rows({b \in BookingIds : bookings[b].employer_id = u}))

list_bookings(u) ==
    IF ~require_admin(u)
    THEN ReadFinish("list_bookings", u, NoId, 403, NoBody)
    ELSE ReadFinish("list_bookings", u, NoId, 200, Rows(BookingIds))

get_booking(u, b) ==
    IF ~require_admin(u)
    THEN ReadFinish("get_booking", u, b, 403, NoBody)
    ELSE IF b \notin BookingIds
    THEN ReadFinish("get_booking", u, b, 404, NoBody)
    ELSE ReadFinish("get_booking", u, b, 200, Rows({b}))

(***************************************************************************)
(* PATCH /api/bookings/{id}/status                                         *)
(***************************************************************************)
\* A handler without the status whitelist.
IsValidStatusAny(s) == TRUE

\* A whitelist with a fourth status.
IsValidStatusExtra(s) == s \in ValidStatuses \cup {"archived"}

\* payload.status not in ("pending", "confirmed", "cancelled")
IsValidStatus(s) == s \in ValidStatuses

\* A confirm block that does not compare with the stored status.
ConfirmingUnguarded(s, old) == s = "confirmed"

\* The guards of the two side-effect blocks.
Confirming(s, old) == s = "confirmed" /\ old /= "confirmed"

Cancelling(s, old) == s = "cancelled" /\ old /= "cancelled"

\* A conferencing failure that is logged and swallowed like the others.
ZoomStepSwallowed(bk, zoom) ==
    [abort |-> FALSE,
     bk |-> IF zoom = "fail" THEN bk ELSE [bk EXCEPT !.meeting_url = zoom]]

\* Step 1: create_meeting inside try/except; the except re-raises as
\* HTTPException(500).  abort = the handler is left here.
ZoomStep(bk, zoom) ==
    IF zoom = "fail"
    THEN [abort |-> TRUE, bk |-> bk]
    ELSE [abort |-> FALSE, bk |-> [bk EXCEPT !.meeting_url = zoom]]

\* Step 2: create_calendar_event returns an id or None; a falsy id is
\* not stored.
CalendarStep(bk, cal) ==
    IF Truthy(cal) THEN [bk EXCEPT !.calendar_event_id = cal] ELSE bk

\* Step 3: the brief is requested only for a truthy website_url; an
\* exception of the generator is caught and leaves brief_dict = {}.
BriefStep(bk, brief) ==
    IF Truthy(bk.website_url) /\ brief /= "raise" THEN brief ELSE "empty"

\* Step 4, the query: the default-tenant profiles whose company_name
\* equals the booking's (company_name is NOT NULL, so a NULL booking
\* company matches no row).
MatchingProfiles(bk) ==
    {p \in DOMAIN profiles : /\ profiles[p].company_name = bk.company_name
                             /\ profiles[p].tenant_id = None}

\* Step 4, the row built or updated before the AI fields are merged.
ProfileBase(bk, pick) ==
    IF pick = NoId
    THEN EmployerProfile(OrEmpty(bk.company_name), bk.website_url,
                         bk.employer_email, bk.phone, bk.employer_id)
    ELSE [profiles[pick] EXCEPT
            !.website_url = IF Truthy(bk.website_url) THEN bk.website_url ELSE @,
            !.phone = IF Truthy(bk.phone) THEN bk.phone ELSE @]

\* Step 4, `if brief_dict:` assigns all eight AI columns from .get().
MergeBrief(prof, kind) ==
    IF BriefTruthy(kind)
    THEN [prof EXCEPT
            !.ai_industry = BriefGet(kind, "industry"),
            !.ai_company_size = BriefGet(kind, "estimated_size"),
            !.ai_company_overview = BriefGet(kind, "company_overview"),
            !.ai_hiring_needs = BriefDumpList(kind, "hiring_needs"),
            !.ai_talking_points = BriefDumpList(kind, "talking_points"),
            !.ai_red_flags = BriefGet(kind, "red_flags"),
            !.ai_brief_raw = BriefRaw(kind),
            !.ai_brief_updated = TRUE]
    ELSE prof

\* Step 4, how the try block ends:
\*   "ok"      flushed, booking linked to the profile;
\*   "raised"  brief_dict.get raised (brief_dict is not a dict): the row
\*             added or edited so far stays pending in the session;
\*   "flush"   db.flush() raised (a dict cannot be bound to a String
\*             column): the session's transaction is rolled back and
\*             stays inactive, every later statement and db.commit()
\*             raise PendingRollbackError.
UpsertOutcome(kind) ==
    CASE kind = "nondict" -> "raised"
      [] kind = "nested" -> "flush"
      [] OTHER -> "ok"

\* A delete_calendar_event that lets the API error propagate.
delete_calendar_event_raising(event_id, delOk) ==
    IF ~Truthy(event_id) THEN "false"
    ELSE IF delOk THEN "true" ELSE "raise"

\* Cancel block: delete_calendar_event swallows every exception and
\* returns a bool; "raise" is what the handler's except would catch.
delete_calendar_event(event_id, delOk) ==
    IF ~Truthy(event_id) THEN "false"
    ELSE IF delOk THEN "true" ELSE "false"

CancelCalendarStep(bk, delOk) ==
    IF Truthy(bk.calendar_event_id)
    THEN IF delete_calendar_event(bk.calendar_event_id, delOk) = "raise"
         THEN bk
         ELSE [bk EXCEPT !.calendar_event_id = None]
    ELSE bk

\* A handler that commits without assigning the status.
PersistStatusSkipped(bk, s) == bk

\* booking.status = payload.status
PersistStatus(bk, s) == [bk EXCEPT !.status = s]

\* The calls the confirm block has made when it is left.
ConfirmCalls(bk, zoom, cal, kind, up, notifyOk) ==
    <<Call("create_meeting", zoom /= "fail"),
      Call("create_calendar_event", Truthy(cal))>>
    \o (IF Truthy(bk.website_url)
        THEN <<Call("generate_pre_call_brief", BriefTruthy(kind))>> ELSE <<>>)
    \o <<Call("upsert_profile", up = "ok")>>
    \o (IF up = "flush" THEN <<>>
        ELSE <<Call("notify_booking_confirmed", notifyOk)>>)

CancelCalls(bk, delOk, notifyOk) ==
    (IF Truthy(bk.calendar_event_id)
     THEN <<Call("delete_calendar_event", delOk)>> ELSE <<>>)
    \o <<Call("notify_booking_cancelled", notifyOk)>>

\* The end of a booking request: the answer and the committed stores; arg
\* notes what the collaborators were given, for the properties.
FinishArg(op, u, b, s, arg, code, calls, newBookings, newProfiles) ==
    /\ last' = [Reply(op, u, b, s,
                      IF b \in BookingIds THEN bookings[b].status ELSE None,
                      code, calls, NoBody)
                  EXCEPT !.arg = arg]
    /\ bookings' = newBookings
    /\ profiles' = newProfiles
    /\ UNCHANGED <<inflight, users, nextBookingId, oauth_temp, nextToken, waitlist, now>>

update_booking_status_noting(u, b, s, zoom, cal, brief, pick, delOk, notifyOk, arg) ==
    IF ~require_admin(u)
    THEN FinishArg("set_status", u, b, s, arg, 403, <<>>, bookings, profiles)
    ELSE IF b \notin BookingIds
    THEN FinishArg("set_status", u, b, s, arg, 404, <<>>, bookings, profiles)
    ELSE IF ~IsValidStatus(s)
    THEN FinishArg("set_status", u, b, s, arg, 400, <<>>, bookings, profiles)
    ELSE
    LET bk == bookings[b]
        confirming == Confirming(s, bk.status)
        cancelling == Cancelling(s, bk.status)
        z == ZoomStep(bk, zoom)
        bk2 == CalendarStep(z.bk, cal)
        kind == BriefStep(bk, brief)
        up == UpsertOutcome(kind)
        base == ProfileBase(bk, pick)
        prof == IF up = "raised" THEN base ELSE MergeBrief(base, kind)
        pid == IF pick = NoId THEN Len(profiles) + 1 ELSE pick
        bk3 == IF up = "ok" THEN [bk2 EXCEPT !.employer_profile_id = pid]
               ELSE bk2
        bk4 == IF confirming THEN bk3
               ELSE IF cancelling THEN CancelCalendarStep(bk, delOk)
               ELSE bk
        calls == IF confirming
                 THEN ConfirmCalls(bk, zoom, cal, kind, up, notifyOk)
                 ELSE IF cancelling THEN CancelCalls(bk, delOk, notifyOk)
                 ELSE <<>>
        profs == IF ~confirming THEN profiles
                 ELSE IF pick = NoId THEN Append(profiles, prof)
                 ELSE [profiles EXCEPT ![pick] = prof]
    IN  IF confirming /\ z.abort
        THEN FinishArg("set_status", u, b, s, arg, 500,
                       <<Call("create_meeting", FALSE)>>, bookings, profiles)
        ELSE IF confirming /\ up = "flush"
        THEN FinishArg("set_status", u, b, s, arg, 500, calls, bookings, profiles)
        ELSE /\ Len(profs) <= MaxProfiles
             /\ FinishArg("set_status", u, b, s, arg, 200, calls,
                          [bookings EXCEPT ![b] = PersistStatus(bk4, s)],
                          profs)

Finish(op, u, b, s, code, calls, newBookings, newProfiles) ==
    FinishArg(op, u, b, s, None, code, calls, newBookings, newProfiles)

update_booking_status(u, b, s, zoom, cal, brief, pick, delOk, notifyOk) ==
    update_booking_status_noting(u, b, s, zoom, cal, brief, pick, delOk,
                                 notifyOk, None)

\* .first() of the upsert query: any matching row, none if there is none.
FirstChoices(b) ==
    IF b \in BookingIds /\ MatchingProfiles(bookings[b]) /= {}
    THEN MatchingProfiles(bookings[b]) ELSE {NoId}

\* A collaborator's outcome is drawn only when the handler reaches the
\* call; otherwise the one value dflt stands for "not called".
Reached(cond, outcomes, dflt) == IF cond THEN outcomes ELSE {dflt}

SetStatusIn(cap, us, zs, cals, briefs) ==
    \E u \in us, b \in 1..cap, s \in StatusInputs :
        LET run == require_admin(u) /\ b \in BookingIds /\ IsValidStatus(s)
            conf == run /\ Confirming(s, bookings[b].status)
            canc == run /\ Cancelling(s, bookings[b].status)
        IN  \E zoom \in Reached(conf, zs, "fail"),
               cal \in Reached(conf, cals, None),
               brief \in Reached(conf /\ Truthy(bookings[b].website_url),
                                 briefs, "empty"),
               delOk \in Reached(canc /\ Truthy(bookings[b].calendar_event_id),
                                 BOOLEAN, TRUE),
               notifyOk \in Reached(conf \/ canc, BOOLEAN, TRUE),
               pick \in FirstChoices(b) :
                update_booking_status(u, b, s, zoom, cal, brief, pick,
                                      delOk, notifyOk)

(***************************************************************************)
(* DELETE /api/bookings/{id}                                               *)
(***************************************************************************)
\* A soft delete: the row stays, marked cancelled.
WithoutBookingSoft(b) == [bookings EXCEPT ![b].status = "cancelled"]

\* db.delete(booking)
WithoutBooking(b) == [x \in BookingIds \ {b} |-> bookings[x]]

delete_booking(u, b) ==
    IF ~require_admin(u)
    THEN Finish("delete", u, b, None, 403, <<>>, bookings, profiles)
    ELSE IF b \notin BookingIds
    THEN Finish("delete", u, b, None, 404, <<>>, bookings, profiles)
    ELSE Finish("delete", u, b, None, 204, <<>>, WithoutBooking(b), profiles)

DeleteBookingIn(cap, us) == \E u \in us, b \in 1..cap : delete_booking(u, b)

(***************************************************************************)
(* Booking lifecycle: one date and slot; each collaborator succeeds or     *)
(* fails, the brief comes back empty or breaks the profile flush.           *)
(***************************************************************************)
Admin == 1
Employer == 2

CreateBooking ==
    CreateBookingIn(MaxBookings, {Employer}, Companies, Websites,
                    {"2026-03-01"}, {"10:00 AM"})
GetAvailability == GetAvailabilityIn({"2026-03-01"})
SetStatus ==
    SetStatusIn(MaxBookings, {Admin, Employer}, {"zoom/1", "fail"},
                CalendarOutcomes, {"empty", "nested"})
DeleteBooking == DeleteBookingIn(MaxBookings, {Admin, Employer})
MyBookings == \E u \in {Admin, Employer} : get_my_bookings(u)
ListBookings == \E u \in {Admin, Employer} : list_bookings(u)
GetBooking == \E u \in {Admin, Employer}, b \in 1..MaxBookings : get_booking(u, b)

Next ==
    \/ CreateBooking
    \/ GetAvailability
    \/ MyBookings
    \/ ListBookings
    \/ GetBooking
    \/ SetStatus
    \/ DeleteBooking

Spec == Init /\ [][Next]_vars

(***************************************************************************)
(* Slot occupancy: two dates and two slots, every collaborator succeeds.   *)
(***************************************************************************)
CreateSlotBooking ==
    CreateBookingIn(MaxSlotBookings, {Employer}, {"acme"}, {None}, Dates,
                    TimeSlots)
GetSlotAvailability == GetAvailabilityIn(Dates)
SetSlotStatus ==
    SetStatusIn(MaxSlotBookings, {Admin}, {"zoom/1"}, {None}, {"empty"})
DeleteSlotBooking == DeleteBookingIn(MaxSlotBookings, {Admin})

NextAvail ==
    \/ CreateSlotBooking
    \/ GetSlotAvailability
    \/ SetSlotStatus
    \/ DeleteSlotBooking

SpecAvail == Init /\ [][NextAvail]_vars

(***************************************************************************)
(* Waitlist: app/api/waitlist.py, app/models/waitlist.py                   *)
(***************************************************************************)
\* Addresses are kept as tuples of characters so that lower-casing is
\* computed; the domain part arrives lower-cased from EmailStr.
WaitlistEmails ==
    {<<"a", "@", "x">>, <<"A", "@", "x">>, <<"b", "@", "x">>,
     <<"B", "@", "x">>}
Sources == {"landing_page", "footer"}

\* str.lower(), character by character.
LowerChar(c) ==
    CASE c = "A" -> "a"
      [] c = "B" -> "b"
      [] OTHER -> c

lower(s) == [i \in DOMAIN s |-> LowerChar(s[i])]

\* A waitlist table without the unique index on email.
UniqueViolationNever(email) == FALSE

\* The unique index of waitlist.email refuses the INSERT (IntegrityError).
UniqueViolation(email) == \E i \in DOMAIN waitlist : waitlist[i].email = email

\* POST /api/waitlist; created_at is the server's now().
join_waitlist(email, source) ==
    LET e == lower(email)
    IN  /\ IF UniqueViolation(e)
           THEN /\ waitlist' = waitlist
                /\ last' = Reply("join_waitlist", NoId, NoId, email, None,
                                 409, <<>>, NoBody)
           ELSE /\ waitlist' = Append(waitlist,
                                      [email |-> e, source |-> source,
                                       created_at |-> now])
                /\ last' = Reply("join_waitlist", NoId, Len(waitlist) + 1,
                                 email, None, 201, <<>>, <<e, source>>)
        /\ now' = now + 1
        /\ UNCHANGED <<inflight, users, bookings, nextBookingId, profiles, oauth_temp,
                       nextToken>>

\* Time passes between requests: every request is served one tick later.
JoinWaitlist ==
    /\ now <= MaxJoins
    /\ \E email \in WaitlistEmails, source \in Sources :
           join_waitlist(email, source)

\* GET /api/waitlist: admin only, newest first.
list_waitlist(u) ==
    /\ last' = IF ~require_admin(u)
               THEN Reply("list_waitlist", u, NoId, None, None, 403, <<>>,
                          NoBody)
               ELSE Reply("list_waitlist", u, NoId, None, None, 200, <<>>,
                          [i \in DOMAIN waitlist |->
                             waitlist[Len(waitlist) + 1 - i].email])
    /\ UNCHANGED <<inflight, users, bookings, nextBookingId, profiles, oauth_temp,
                   nextToken, waitlist, now>>

ListWaitlist == \E u \in {Admin, Employer} : list_waitlist(u)

NextWaitlist ==
    \/ JoinWaitlist
    \/ ListWaitlist

SpecWaitlist == Init /\ [][NextWaitlist]_vars

(***************************************************************************)
(* Identity: app/schemas/user.py, app/services/auth.py, app/api/auth.py    *)
(***************************************************************************)
\* schemas.user.PublicUserType and models.user.UserType, by value.
PublicUserType == {"employer", "candidate"}
UserType == {"EMPLOYER", "CANDIDATE", "ADMIN"}

\* The role stored for a validated registration value.
StoredRole(v) ==
    CASE v = "employer" -> "EMPLOYER"
      [] v = "candidate" -> "CANDIDATE"
      [] OTHER -> "ADMIN"

\* UserCreate: password of 8 to 100 characters, user_type a
\* PublicUserType that the field validator does not refuse.
UserCreateValid(pw, role) ==
    /\ Len(pw) >= 8
    /\ Len(pw) <= 100
    /\ role \in PublicUserType
    /\ role /= "admin"

\* The query parameter user_type: UserType of complete_oauth_signup.
SignupRoleValid(role) == role \in UserType

RegisterEmails == {"emp@acme", "new@corp"}
LoginEmails == {"emp@acme", "off@acme", "ghost@corp"}
Passwords == {"password1", "short"}
RoleInputs == {"employer", "candidate", "admin"}
SignupRoleInputs == UserType \cup {"employer"}
FullNames == {"Ann"}
OAuthEmails == {"emp@acme", "new@corp"}
Subs == {"sub1"}

\* What the provider hands back: a profile, or nothing (ok = FALSE: the
\* code exchange failed or the profile lacks email or sub).
ProviderProfiles ==
    [ok : {TRUE}, email : OAuthEmails, sub : Subs]
    \cup {[ok |-> FALSE, email |-> None, sub |-> None]}

\* secrets.token_urlsafe(32): a fresh name per call.
TokenName(n) == "tok" \o ToString(n)

UsersByEmail(email) == {i \in UserIds : users[i].email = email}

\* The end of an identity request.
AuthFinish(op, req, arg, code, body, newUsers, newTemp, newNext) ==
    /\ Len(newUsers) <= MaxUsers
    /\ last' = [Reply(op, NoId, NoId, req, None, code, <<>>, body)
                  EXCEPT !.arg = arg]
    /\ users' = newUsers
    /\ oauth_temp' = newTemp
    /\ nextToken' = newNext
    /\ UNCHANGED <<inflight, bookings, nextBookingId, profiles, waitlist, now>>

\* A create_user that trusts the unique index instead of looking first.
EmailTakenUnchecked(email) == FALSE

\* create_user, the lookup: db.query(User).filter(User.email == ...).first()
EmailTaken(email) == UsersByEmail(email) /= {}

\* AuthService.create_user as called by register: 400 when the email is
\* registered; the INSERT itself fails on the unique index of users.email
\* (register turns that exception into 500).
create_user(email, name, pw, role) ==
    IF EmailTaken(email)
    THEN [code |-> 400, users |-> users]
    ELSE IF UsersByEmail(email) /= {}
    THEN [code |-> 500, users |-> users]
    ELSE [code |-> 201,
          users |-> Append(users, User(email, name, get_password_hash(pw),
                                       StoredRole(role), None, None, None,
                                       TRUE, FALSE))]

register(email, name, pw, role) ==
    IF ~UserCreateValid(pw, role)
    THEN AuthFinish("register", email, role, 422, NoBody, users, oauth_temp,
                    nextToken)
    ELSE LET r == create_user(email, name, pw, role)
         IN  AuthFinish("register", email, role, r.code, NoBody, r.users,
                        oauth_temp, nextToken)

RegisterIn(emails, names, pws, roles) ==
    \E email \in emails, name \in names, pw \in pws, role \in roles :
        register(email, name, pw, role)

Register == RegisterIn(RegisterEmails, FullNames, Passwords, RoleInputs)

\* AuthService.authenticate_user
authenticate_user(email, pw) ==
    IF \/ UsersByEmail(email) = {}
       \/ \A i \in UsersByEmail(email) :
            ~verify_password(pw, users[i].hashed_password)
    THEN AuthFinish("login", email, pw, 401, NoBody, users, oauth_temp,
                    nextToken)
    ELSE AuthFinish("login", email, pw, 200, <<"bearer", email>>, users,
                    oauth_temp, nextToken)

Login == \E email \in LoginEmails, pw \in Passwords : authenticate_user(email, pw)

\* The stashed provider profile.
OAuthData(provider, info) ==
    [email |-> info.email, oauth_provider |-> provider,
     oauth_provider_id |-> info.sub, full_name |-> "Ann", avatar_url |-> "pic"]

\* The tail common to both callbacks: log the found user in, or stash the
\* profile under a fresh opaque token.
CallbackFinish(op, provider, info, matches) ==
    IF ~info.ok
    THEN AuthFinish(op, None, None, 307, <<"error", "oauth">>, users,
                    oauth_temp, nextToken)
    ELSE IF matches /= {}
    THEN \E i \in matches :
            AuthFinish(op, info.email, info.sub, 307,
                       <<"bearer", users[i].email>>, users, oauth_temp,
                       nextToken)
    ELSE /\ nextToken <= MaxTokens
         /\ AuthFinish(op, info.email, info.sub, 307,
                       <<"temp_token", TokenName(nextToken)>>, users,
                       (TokenName(nextToken) :> OAuthData(provider, info))
                         @@ oauth_temp,
                       nextToken + 1)

\* google_callback: existing user by provider id OR by email.
GoogleMatches(info) ==
    {i \in UserIds : \/ users[i].oauth_provider_id = info.sub
                     \/ users[i].email = info.email}

google_callback(info) ==
    CallbackFinish("google_callback", "google", info, GoogleMatches(info))

GoogleCallback == \E info \in ProviderProfiles : google_callback(info)

\* linkedin_callback: existing user by (provider, provider id) only.
LinkedinMatches(info) ==
    {i \in UserIds : /\ users[i].oauth_provider = "linkedin"
                     /\ users[i].oauth_provider_id = info.sub}

linkedin_callback(info) ==
    CallbackFinish("linkedin_callback", "linkedin", info, LinkedinMatches(info))

LinkedinCallback == \E info \in ProviderProfiles : linkedin_callback(info)

\* A delete that leaves the key in the side store.
WithoutTokenKept(t) == oauth_temp

\* delete_oauth_temp_data, and the TTL of store_oauth_temp_data.
WithoutToken(t) == [x \in DOMAIN oauth_temp \ {t} |-> oauth_temp[x]]

\* What get_oauth_temp_data returns for a missing key (Python None).
NoOAuthData ==
    [email |-> None, oauth_provider |-> None, oauth_provider_id |-> None,
     full_name |-> None, avatar_url |-> None]

\* A lookup that answers with some stashed profile when the key is gone.
get_oauth_temp_data_any(t) ==
    IF t \in DOMAIN oauth_temp THEN oauth_temp[t]
    ELSE IF DOMAIN oauth_temp = {} THEN NoOAuthData
    ELSE oauth_temp[CHOOSE x \in DOMAIN oauth_temp : TRUE]

\* get_oauth_temp_data: the stashed profile, None for a key the side store
\* does not hold (never set, expired, or deleted).
get_oauth_temp_data(t) ==
    IF t \in DOMAIN oauth_temp THEN oauth_temp[t] ELSE NoOAuthData

\* A new OAuth user that is also given a password hash.
OAuthUserWithPassword(data, role) ==
    User(data.email, data.full_name, get_password_hash("password1"), role,
         data.oauth_provider, data.oauth_provider_id, data.avatar_url,
         TRUE, FALSE)

\* A new OAuth user whose ADMIN user_type also grants the admin flag.
OAuthUserAdminByType(data, role) ==
    User(data.email, data.full_name, None, role, data.oauth_provider,
         data.oauth_provider_id, data.avatar_url, TRUE, role = "ADMIN")

\* The row complete_oauth_signup builds for an email no user has.
OAuthUser(data, role) ==
    User(data.email, data.full_name, None, role, data.oauth_provider,
         data.oauth_provider_id, data.avatar_url, TRUE, FALSE)

\* complete_oauth_signup
complete_oauth_signup(t, role) ==
    IF ~SignupRoleValid(role)
    THEN AuthFinish("complete_signup", t, role, 422, NoBody, users,
                    oauth_temp, nextToken)
    ELSE IF get_oauth_temp_data(t) = NoOAuthData
    THEN AuthFinish("complete_signup", t, role, 400, NoBody, users,
                    oauth_temp, nextToken)
    ELSE
    LET data == get_oauth_temp_data(t)
        existing == UsersByEmail(data.email)
        linked == [i \in UserIds |->
                     IF i \in existing
                     THEN [users[i] EXCEPT
                             !.oauth_provider = data.oauth_provider,
                             !.oauth_provider_id = data.oauth_provider_id,
                             !.avatar_url = data.avatar_url]
                     ELSE users[i]]
        created == Append(users, OAuthUser(data, role))
    IN  AuthFinish("complete_signup", t, role, 200, <<"bearer", data.email>>,
                   IF existing /= {} THEN linked ELSE created,
                   WithoutToken(t), nextToken)

CompleteSignup ==
    \E n \in 1..MaxTokens, role \in SignupRoleInputs :
        complete_oauth_signup(TokenName(n), role)

\* The 300 s expiry of a stashed profile elapses.
ExpireToken ==
    \E t \in DOMAIN oauth_temp :
        AuthFinish("expire", t, None, 0, NoBody, users, WithoutToken(t),
                   nextToken)

NextAuth ==
    \/ Register
    \/ Login
    \/ GoogleCallback
    \/ LinkedinCallback
    \/ CompleteSignup
    \/ ExpireToken

SpecAuth == Init /\ [][NextAuth]_vars

(***************************************************************************)
(* Onboarding: an employer registers, with or without a full name, and     *)
(* any stored user books a call.                                           *)
(***************************************************************************)
RegisterEmployer ==
    RegisterIn({"new@corp"}, {"Ann", None}, {"password1"}, {"employer"})
CreateOwnBooking ==
    CreateBookingIn(MaxSlotBookings, UserIds, {"acme"}, {None}, Dates,
                    TimeSlots)
GetOwnBookings == \E u \in UserIds : get_my_bookings(u)

NextOnboard ==
    \/ RegisterEmployer
    \/ CreateOwnBooking
    \/ GetOwnBookings

SpecOnboard == Init /\ [][NextOnboard]_vars

(***************************************************************************)
(* The brief generator and the confirmations that use it.                  *)
(***************************************************************************)
\* What the configuration, the website fetch and the model call can give.
KeyOutcomes == {TRUE, FALSE}
FetchOutcomes == {"raise", "", "text"}
\* The markdown fence, three backquotes.
Fence == "fence"
LlmPayloads == {"{full}", "{nested}", "[list]", "prose"}
LlmOutcomes ==
    {[raised |-> TRUE, lines |-> <<>>]}
    \cup {[raised |-> FALSE, lines |-> <<p>>] : p \in LlmPayloads}
    \cup {[raised |-> FALSE, lines |-> <<Fence, p, Fence>>] : p \in LlmPayloads}

\* raw.startswith(fence): drop the fence line and the closing fence.
StripFences(lines) ==
    IF Len(lines) > 0 /\ Head(lines) = Fence
    THEN SubSeq(lines, 2, Len(lines) - 1)
    ELSE lines

RawText(lines) == IF Len(lines) = 0 THEN "" ELSE Head(lines)

\* json.loads: the kind of value parsed, or the decode error.
json_loads(raw) ==
    CASE raw = "{full}" -> "full"
      [] raw = "{nested}" -> "nested"
      [] raw = "[list]" -> "nondict"
      [] OTHER -> "JSONDecodeError"

\* A generator that lets a fetch error through.
generate_pre_call_brief_unguarded(key, fetch, llm) ==
    IF ~key THEN "empty"
    ELSE IF fetch = "raise" THEN "raise"
    ELSE IF fetch = "" THEN "empty"
    ELSE IF llm.raised THEN "empty"
    ELSE LET result == json_loads(RawText(StripFences(llm.lines)))
         IN  IF result = "JSONDecodeError" THEN "raw" ELSE result

generate_pre_call_brief(key, fetch, llm) ==
    IF ~key THEN "empty"
    ELSE IF fetch = "raise" THEN "empty"
    ELSE IF fetch = "" THEN "empty"
    ELSE IF llm.raised THEN "empty"
    ELSE LET result == json_loads(RawText(StripFences(llm.lines)))
         IN  IF result = "JSONDecodeError" THEN "raw" ELSE result

BriefInputs(key, fetch, llm) ==
    [key |-> key, fetch |-> fetch, llm |-> llm,
     result |-> generate_pre_call_brief(key, fetch, llm)]

\* Bookings of one employer with a website, so every confirmation asks
\* for a brief.
CreateBriefBooking ==
    CreateBookingIn(MaxBriefBookings, {Employer}, {"acme"}, {"acme.com"},
                    {"2026-03-01"}, {"10:00 AM"})

ConfirmWithBrief ==
    \E b \in 1..MaxBriefBookings :
        /\ b \in BookingIds
        /\ bookings[b].status = "pending"
        /\ \E key \in KeyOutcomes, fetch \in FetchOutcomes,
              llm \in LlmOutcomes, pick \in FirstChoices(b),
              zoom \in {"zoom/1", "fail"} :
               LET arg == BriefInputs(key, fetch, llm)
               IN  update_booking_status_noting(Admin, b, "confirmed", zoom,
                                                "ev1", arg.result, pick, TRUE,
                                                TRUE, arg)

ReopenBooking ==
    \E b \in 1..MaxBriefBookings :
        update_booking_status(Admin, b, "pending", "fail", None, "empty",
                              NoId, TRUE, TRUE)

NextBrief ==
    \/ CreateBriefBooking
    \/ ConfirmWithBrief
    \/ ReopenBooking

SpecBrief == Init /\ [][NextBrief]_vars

(***************************************************************************)
(* set_status requests served by different worker threads: each has its    *)
(* own session, which loads the row first and commits at the end.          *)
(***************************************************************************)
\* Every create_meeting and create_calendar_event call returns a new join
\* URL or event id: one that no stored or loaded row carries.
RaceUrls == <<"zoom/1", "zoom/2", "zoom/3", "zoom/4">>
RaceEvents == <<"ev1", "ev2", "ev3", "ev4">>

\* The first name of the pool that is not in use, if there is one.
FirstUnused(pool, used) ==
    LET free == {i \in DOMAIN pool : pool[i] \notin used}
    IN  {pool[i] : i \in {j \in free : \A k \in free : j <= k}}

LoadedRows == {inflight[r][1].row : r \in {q \in Requests : inflight[q] /= <<>>}}
KnownRows == {bookings[b] : b \in BookingIds} \cup LoadedRows
FreshUrls == FirstUnused(RaceUrls, {row.meeting_url : row \in KnownRows})
FreshEvents ==
    FirstUnused(RaceEvents, {row.calendar_event_id : row \in KnownRows})

CreateRaceBooking ==
    CreateBookingIn(MaxBookings, {Employer}, {"acme"}, {None},
                    {"2026-03-01"}, {"10:00 AM"})

\* The lookup and the two early returns: the session now holds the row as
\* it was read.
BeginSetStatus(r) ==
    /\ r = now
    /\ now' = now + 1
    /\ \E b \in BookingIds, s \in ValidStatuses :
          inflight' = [inflight EXCEPT
                         ![r] = <<[op |-> "set_status", target |-> b,
                                   req |-> s, row |-> bookings[b]]>>]
    /\ UNCHANGED <<users, bookings, nextBookingId, profiles, oauth_temp,
                   nextToken, waitlist, last>>

\* A session that reads the row again, under a lock, before it decides.
SessionRowRefreshed(rq) == bookings[rq.target]

\* The ORM object the handler decides on and edits.
SessionRow(rq) == rq.row

\* The UPDATE of a flush sets the columns the session changed and leaves
\* the others as they are stored now.
FlushRow(stored, loaded, final) ==
    [stored EXCEPT
       !.status = IF final.status /= loaded.status THEN final.status ELSE @,
       !.meeting_url =
           IF final.meeting_url /= loaded.meeting_url
           THEN final.meeting_url ELSE @,
       !.calendar_event_id =
           IF final.calendar_event_id /= loaded.calendar_event_id
           THEN final.calendar_event_id ELSE @,
       !.employer_profile_id =
           IF final.employer_profile_id /= loaded.employer_profile_id
           THEN final.employer_profile_id ELSE @]

\* The rest of the handler, from the confirm block to the commit.
finish_set_status(r, zoom, cal, pick, delOk) ==
    LET rq == inflight[r][1]
        b == rq.target
        s == rq.req
        bk == SessionRow(rq)
        confirming == Confirming(s, bk.status)
        cancelling == Cancelling(s, bk.status)
        z == ZoomStep(bk, zoom)
        bk2 == CalendarStep(z.bk, cal)
        kind == BriefStep(bk, "empty")
        up == UpsertOutcome(kind)
        prof == MergeBrief(ProfileBase(bk, pick), kind)
        pid == IF pick = NoId THEN Len(profiles) + 1 ELSE pick
        bk3 == [bk2 EXCEPT !.employer_profile_id = pid]
        bk4 == IF confirming THEN bk3
               ELSE IF cancelling THEN CancelCalendarStep(bk, delOk)
               ELSE bk
        calls == IF confirming
                 THEN ConfirmCalls(bk, zoom, cal, kind, up, TRUE)
                 ELSE IF cancelling THEN CancelCalls(bk, delOk, TRUE)
                 ELSE <<>>
        profs == IF ~confirming THEN profiles
                 ELSE IF pick = NoId THEN Append(profiles, prof)
                 ELSE [profiles EXCEPT ![pick] = prof]
        note == [stored |-> bookings[b].status,
                 stored_url |-> bookings[b].meeting_url,
                 zoom |-> zoom, cal |-> cal]
        reply(code, cs) ==
            [Reply("set_status", Admin, b, s, bk.status, code, cs, NoBody)
               EXCEPT !.arg = note]
    IN  /\ inflight' = [inflight EXCEPT ![r] = <<>>]
        /\ IF confirming /\ z.abort
           THEN /\ last' = reply(500, <<Call("create_meeting", FALSE)>>)
                /\ UNCHANGED <<bookings, profiles>>
           ELSE /\ Len(profs) <= MaxProfiles
                /\ last' = reply(200, calls)
                /\ bookings' = [bookings EXCEPT
                                  ![b] = FlushRow(@, bk, PersistStatus(bk4, s))]
                /\ profiles' = profs
        /\ UNCHANGED <<users, nextBookingId, oauth_temp, nextToken, waitlist,
                       now>>

EndSetStatus(r) ==
    /\ inflight[r] /= <<>>
    /\ LET rq == inflight[r][1]
           conf == Confirming(rq.req, SessionRow(rq).status)
           canc == Cancelling(rq.req, SessionRow(rq).status)
       IN  \E zoom \in Reached(conf, FreshUrls \cup {"fail"}, "fail") :
           \E cal \in Reached(conf /\ zoom /= "fail",
                              FreshEvents \cup {None}, None),
              pick \in Reached(conf /\ zoom /= "fail",
                               FirstChoices(rq.target), NoId),
              delOk \in Reached(canc, BOOLEAN, TRUE) :
               finish_set_status(r, zoom, cal, pick, delOk)

BeginRequest == \E r \in Requests : BeginSetStatus(r)
EndRequest == \E r \in Requests : EndSetStatus(r)

NextRace ==
    \/ CreateRaceBooking
    \/ BeginRequest
    \/ EndRequest

SpecRace == Init /\ [][NextRace]_vars

(***************************************************************************)
(* register and complete_signup requests for one email, served at the      *)
(* same time: each looks the email up first and inserts or links later.    *)
(***************************************************************************)
RaceEmail == "new@corp"

\* A LinkedIn sign-in of a profile with the raced email: it stashes the
\* profile under a token unless the LinkedIn identity is already stored.
StashProfile ==
    linkedin_callback([ok |-> TRUE, email |-> RaceEmail, sub |-> "sub1"])

\* A store without the unique index on users.email.
EmailIndexViolationNever(email) == FALSE

\* users.email is unique: an INSERT of a second row with the email fails.
EmailIndexViolation(email) == UsersByEmail(email) /= {}

\* The lookup by email that both handlers start with.
BeginSignup(r) ==
    /\ r = now
    /\ now' = now + 1
    /\ \E op \in {"register", "complete_signup"} :
       \E t \in IF op = "register" THEN {None} ELSE DOMAIN oauth_temp :
          LET email == IF op = "register" THEN RaceEmail
                       ELSE get_oauth_temp_data(t).email
          IN  inflight' = [inflight EXCEPT
                             ![r] = <<[op |-> op, email |-> email,
                                       token |-> t,
                                       existing |-> UsersByEmail(email)]>>]
    /\ UNCHANGED <<users, bookings, nextBookingId, profiles, oauth_temp,
                   nextToken, waitlist, last>>

\* The end of a raced identity request.
SignupFinish(r, code, body, newUsers, newTemp) ==
    LET rq == inflight[r][1]
    IN  /\ inflight' = [inflight EXCEPT ![r] = <<>>]
        /\ last' = [Reply(rq.op, NoId, NoId, rq.email, None, code, <<>>, body)
                      EXCEPT !.arg = rq.token]
        /\ users' = newUsers
        /\ oauth_temp' = newTemp
        /\ UNCHANGED <<bookings, nextBookingId, profiles, nextToken,
                       waitlist, now>>

\* create_user after its lookup: 400 for an email that was found, else
\* the INSERT, which register answers with 500 when it fails.
finish_register(r) ==
    LET rq == inflight[r][1]
    IN  IF rq.existing /= {}
        THEN SignupFinish(r, 400, NoBody, users, oauth_temp)
        ELSE IF EmailIndexViolation(rq.email)
        THEN SignupFinish(r, 500, NoBody, users, oauth_temp)
        ELSE SignupFinish(r, 201, NoBody,
                          Append(users,
                                 User(rq.email, "Ann",
                                      get_password_hash("password1"),
                                      "EMPLOYER", None, None, None, TRUE,
                                      FALSE)),
                          oauth_temp)

\* complete_oauth_signup after its lookup: link onto the user found, or
\* INSERT; an exception is rolled back and answered with 500 before the
\* token is deleted.
finish_complete_signup(r) ==
    LET rq == inflight[r][1]
        data == get_oauth_temp_data(rq.token)
        linked == [i \in UserIds |->
                     IF i \in rq.existing
                     THEN [users[i] EXCEPT
                             !.oauth_provider = data.oauth_provider,
                             !.oauth_provider_id = data.oauth_provider_id,
                             !.avatar_url = data.avatar_url]
                     ELSE users[i]]
    IN  IF rq.existing /= {}
        THEN SignupFinish(r, 200, <<"bearer", rq.email>>, linked,
                          WithoutToken(rq.token))
        ELSE IF EmailIndexViolation(rq.email)
        THEN SignupFinish(r, 500, NoBody, users, oauth_temp)
        ELSE SignupFinish(r, 200, <<"bearer", rq.email>>,
                          Append(users, OAuthUser(data, "EMPLOYER")),
                          WithoutToken(rq.token))

EndSignup(r) ==
    /\ inflight[r] /= <<>>
    /\ IF inflight[r][1].op = "register"
       THEN finish_register(r)
       ELSE /\ inflight[r][1].token \in DOMAIN oauth_temp
            /\ finish_complete_signup(r)

BeginSignupRequest == \E r \in Requests : BeginSignup(r)
EndSignupRequest == \E r \in Requests : EndSignup(r)

NextSignupRace ==
    \/ StashProfile
    \/ BeginSignupRequest
    \/ EndSignupRequest

SpecSignupRace == Init /\ [][NextSignupRace]_vars

(***************************************************************************)
(* Employer profiles: app/api/employer_profiles.py                         *)
(***************************************************************************)
NoteInputs == {None, "call back"}
RelationInputs == {None, "client"}

ProfileIds == DOMAIN profiles

\* The end of a profile request.
ProfileFinish(op, u, p, req, code, body, newProfiles) ==
    /\ last' = Reply(op, u, p, req, None, code, <<>>, body)
    /\ profiles' = newProfiles
    /\ UNCHANGED <<inflight, users, bookings, nextBookingId, oauth_temp,
                   nextToken, waitlist, now>>

\* GET /api/employer-profiles/{id}
get_employer_profile(u, p) ==
    IF ~require_admin(u)
    THEN ProfileFinish("get_profile", u, p, None, 403, NoBody, profiles)
    ELSE IF p \notin ProfileIds
    THEN ProfileFinish("get_profile", u, p, None, 404, NoBody, profiles)
    ELSE ProfileFinish("get_profile", u, p, None, 200,
                       <<profiles[p].company_name>>, profiles)

\* GET /api/employer-profiles: the default tenant's rows.
list_employer_profiles(u) ==
    IF ~require_admin(u)
    THEN ProfileFinish("list_profiles", u, NoId, None, 403, NoBody, profiles)
    ELSE ProfileFinish("list_profiles", u, NoId, None, 200,
                       [p \in {q \in ProfileIds : profiles[q].tenant_id = None}
                          |-> profiles[p].company_name],
                       profiles)

\* PATCH /api/employer-profiles/{id}: a field that is sent replaces the
\* stored one.
update_employer_profile(u, p, notes, relation) ==
    IF ~require_admin(u)
    THEN ProfileFinish("update_profile", u, p, notes, 403, NoBody, profiles)
    ELSE IF p \notin ProfileIds
    THEN ProfileFinish("update_profile", u, p, notes, 404, NoBody, profiles)
    ELSE ProfileFinish("update_profile", u, p, notes, 200,
                       <<profiles[p].company_name>>,
                       [profiles EXCEPT
                          ![p].recruiter_notes =
                              IF notes /= None THEN notes ELSE @,
                          ![p].relationship_status =
                              IF relation /= None THEN relation ELSE @])

(***************************************************************************)
(* The store as the tables are created: no user at all, so no admin; every *)
(* operation is open to every user the API creates.                        *)
(***************************************************************************)
InitNoAdmin ==
    /\ users = <<>>
    /\ bookings = <<>>
    /\ nextBookingId = 1
    /\ profiles = <<>>
    /\ oauth_temp = <<>>
    /\ nextToken = 1
    /\ waitlist = <<>>
    /\ now = 1
    /\ inflight = [r \in Requests |-> <<>>]
    /\ last = Reply("init", NoId, NoId, None, None, 0, <<>>, NoBody)

RegisterNewcomer ==
    RegisterIn({"new@corp"}, {"Ann"}, {"password1"}, {"employer"})
LoginNewcomer == authenticate_user("new@corp", "password1")
CompleteSignupAs ==
    \E n \in 1..MaxTokens, role \in {"ADMIN", "EMPLOYER"} :
        complete_oauth_signup(TokenName(n), role)
CreateAnyBooking ==
    CreateBookingIn(MaxBookings, UserIds, {"acme"}, {None}, {"2026-03-01"},
                    {"10:00 AM"})
SetStatusByAnyone ==
    SetStatusIn(MaxBookings, UserIds, {"zoom/1"}, {None}, {"empty"})
DeleteByAnyone == DeleteBookingIn(MaxBookings, UserIds)
ListBookingsByAnyone == \E u \in UserIds : list_bookings(u)
GetProfileByAnyone ==
    \E u \in UserIds, p \in 1..MaxProfiles : get_employer_profile(u, p)
ListProfilesByAnyone == \E u \in UserIds : list_employer_profiles(u)
UpdateProfileByAnyone ==
    \E u \in UserIds, p \in 1..MaxProfiles, notes \in NoteInputs,
       relation \in RelationInputs :
        update_employer_profile(u, p, notes, relation)
ListWaitlistByAnyone == \E u \in UserIds : list_waitlist(u)

NextNoAdmin ==
    \/ RegisterNewcomer
    \/ LoginNewcomer
    \/ LinkedinCallback
    \/ CompleteSignupAs
    \/ CreateAnyBooking
    \/ SetStatusByAnyone
    \/ DeleteByAnyone
    \/ ListBookingsByAnyone
    \/ GetProfileByAnyone
    \/ ListProfilesByAnyone
    \/ UpdateProfileByAnyone
    \/ ListWaitlistByAnyone

SpecNoAdmin == InitNoAdmin /\ [][NextNoAdmin]_vars

(***************************************************************************)
(* Properties of the booking lifecycle.                                    *)
(***************************************************************************)
\* The request described by l was a set_status by an admin on a stored
\* booking that had status old, asking for status s.
IsSetStatus(l, old, s) ==
    /\ l.op = "set_status"
    /\ require_admin(l.actor)
    /\ l.old = old
    /\ l.req = s

Called(l, fn) == \E i \in DOMAIN l.calls : l.calls[i].fn = fn
CalledWith(l, fn, ok) == \E i \in DOMAIN l.calls : l.calls[i] = Call(fn, ok)

\* C1: confirming a pending booking whose create_meeting call fails
\* answers 500, leaves the booking and profile stores as they were
\* (status pending, a meeting_url that was unset still unset,
\* calendar_event_id and employer_profile_id unchanged) and calls no other
\* collaborator.
C1_ZoomFailureAborts ==
    [][ (IsSetStatus(last', "pending", "confirmed")
         /\ CalledWith(last', "create_meeting", FALSE))
        => /\ last'.code = 500
           /\ bookings' = bookings
           /\ bookings'[last'.target].status = "pending"
           /\ (bookings[last'.target].meeting_url = None
                 => bookings'[last'.target].meeting_url = None)
           /\ profiles' = profiles
           /\ last'.calls = <<Call("create_meeting", FALSE)>> ]_vars

C1_Witness ==
    /\ IsSetStatus(last, "pending", "confirmed")
    /\ CalledWith(last, "create_meeting", FALSE)
    /\ last.code = 500
    /\ bookings[last.target].status = "pending"
    /\ bookings[last.target].meeting_url = None

\* C2: confirming a pending booking whose create_meeting call succeeds
\* answers 200 and stores status confirmed with meeting_url set, whatever
\* the outcomes of the calendar, brief, profile-upsert and notification
\* steps.
C2_BestEffortNeverBlocks ==
    [][ (IsSetStatus(last', "pending", "confirmed")
         /\ CalledWith(last', "create_meeting", TRUE))
        => /\ last'.code = 200
           /\ bookings'[last'.target].status = "confirmed"
           /\ Truthy(bookings'[last'.target].meeting_url) ]_vars

\* C3 (as stated): cancelled is terminal and confirmed never returns to
\* pending.
C3_CancelledTerminal ==
    [][ \A b \in BookingIds \cap DOMAIN bookings' :
          /\ bookings[b].status = "cancelled"
                => bookings'[b].status = "cancelled"
          /\ bookings[b].status = "confirmed"
                => bookings'[b].status /= "pending" ]_vars

\* C3 (amended): a booking's status changes only in a set_status request
\* on that booking that answers 200, and after every set_status that
\* answers 200 the status is the requested one of the three values,
\* whatever it was before.
C3_StatusFollowsRequest ==
    [][ /\ \A b \in BookingIds \cap DOMAIN bookings' :
              bookings'[b].status /= bookings[b].status
              => /\ last'.op = "set_status"
                 /\ last'.target = b
                 /\ last'.code = 200
        /\ (last'.op = "set_status" /\ last'.code = 200)
              => /\ last'.req \in ValidStatuses
                 /\ bookings'[last'.target].status = last'.req ]_vars

\* A cancelled booking has just been put back to pending.
C3_Witness ==
    /\ IsSetStatus(last, "cancelled", "pending")
    /\ last.code = 200
    /\ bookings[last.target].status = "pending"

\* C4: set_status with the status the booking already has calls no
\* collaborator and leaves the booking and profile stores unchanged.
C4_SameStatusNoOp ==
    [][ (last'.op = "set_status" /\ require_admin(last'.actor)
         /\ last'.target \in BookingIds
         /\ bookings[last'.target].status = last'.req)
        => /\ last'.code = 200
           /\ last'.calls = <<>>
           /\ bookings' = bookings
           /\ profiles' = profiles ]_vars

\* An already-confirmed booking has just been confirmed again.
C4_Witness ==
    /\ IsSetStatus(last, "confirmed", "confirmed")
    /\ last.code = 200
    /\ Truthy(bookings[last.target].meeting_url)

\* C5: cancelling a confirmed booking that has a calendar event calls
\* delete_calendar_event and stores calendar_event_id NULL and status
\* cancelled, whether the delete succeeded or not.
C5_CancelClearsEvent ==
    [][ (IsSetStatus(last', "confirmed", "cancelled")
         /\ Truthy(bookings[last'.target].calendar_event_id))
        => /\ Called(last', "delete_calendar_event")
           /\ bookings'[last'.target].calendar_event_id = None
           /\ bookings'[last'.target].status = "cancelled" ]_vars

\* The delete call of such a cancellation has just failed.
C5_Witness ==
    /\ IsSetStatus(last, "confirmed", "cancelled")
    /\ CalledWith(last, "delete_calendar_event", FALSE)
    /\ bookings[last.target].status = "cancelled"

\* C6: the slots availability(date) answers are exactly the slots of the
\* stored bookings on that date whose status is pending or confirmed.
C6_AvailabilityExact ==
    last.op = "availability"
    => \A slot \in TimeSlots :
         (\E r \in DOMAIN last.body : last.body[r] = slot)
         <=> (\E b \in BookingIds :
                /\ bookings[b].date = last.req
                /\ bookings[b].time_slot = slot
                /\ bookings[b].status \in {"pending", "confirmed"})

\* The answer lists the slot of a live booking and omits the slot of a
\* cancelled booking on the same date.
C6_Witness ==
    /\ last.op = "availability"
    /\ \E b1, b2 \in BookingIds :
         /\ bookings[b1].date = last.req
         /\ bookings[b2].date = last.req
         /\ bookings[b1].status = "cancelled"
         /\ bookings[b2].status = "confirmed"
         /\ bookings[b1].time_slot /= bookings[b2].time_slot
         /\ \E r \in DOMAIN last.body : last.body[r] = bookings[b2].time_slot
         /\ \A r \in DOMAIN last.body : last.body[r] /= bookings[b1].time_slot

\* C7: every stored booking has one of the three statuses, and a
\* set_status with any other value answers 400 and writes nothing.
C7_StatusEnumerated ==
    /\ [](\A b \in BookingIds : bookings[b].status \in ValidStatuses)
    /\ [][ (last'.op = "set_status" /\ require_admin(last'.actor)
            /\ last'.target \in BookingIds
            /\ last'.req \notin ValidStatuses)
           => /\ last'.code = 400
              /\ last'.calls = <<>>
              /\ bookings' = bookings
              /\ profiles' = profiles ]_vars

C7_Witness ==
    /\ last.op = "set_status"
    /\ require_admin(last.actor)
    /\ last.target \in BookingIds
    /\ last.req = "archived"
    /\ last.code = 400

C9_InactiveLoginRefused ==
    last.op = "login"
    => /\ \A i \in UsersByEmail(last.req) :
            (~users[i].is_active
             /\ verify_password(last.arg, users[i].hashed_password))
            => (last.code = 400 /\ last.body = NoBody)
       /\ last.body /= NoBody
            => \E i \in UsersByEmail(last.req) :
                 /\ users[i].is_active
                 /\ verify_password(last.arg, users[i].hashed_password)

\* C10: every user stored by register, a provider callback or
\* complete_signup has role employer or candidate.
C10_NoSelfServiceAdmin ==
    \A i \in UserIds :
        i > Len(SeedUsers) => users[i].user_type \in {"EMPLOYER", "CANDIDATE"}

\* The token named in the request has been handed out by a callback.
Issued(t) == \E n \in 1..(nextToken - 1) : t = TokenName(n)

\* C11: a complete_signup request (with a role the endpoint accepts) whose
\* opaque token is not in the side store, because it was never issued,
\* has expired or was consumed, answers 400 Bad Request, creates no user
\* and changes no stored user.
C11_UnknownTokenRefused ==
    [][ (last'.op = "complete_signup" /\ SignupRoleValid(last'.arg)
         /\ last'.req \notin DOMAIN oauth_temp)
        => /\ last'.code = 400
           /\ last'.body = NoBody
           /\ users' = users ]_vars

\* The only token ever issued was consumed (a user carries its provider
\* profile) and has just been presented again.
C11_Witness ==
    /\ last.op = "complete_signup"
    /\ last.code = 400
    /\ last.req = TokenName(1)
    /\ nextToken = 2
    /\ \E i \in UserIds : users[i].oauth_provider /= None

\* C12: a complete_signup that answers 200 removes its token from the
\* side store; token names are never handed out twice, so the token never
\* comes back, and every later complete_signup naming an issued token that
\* is no longer stored answers 400: one issued token, at most one bearer
\* token.
C12_TokenSingleUse ==
    /\ [](\A t \in DOMAIN oauth_temp : Issued(t))
    /\ [][ /\ (last'.op = "complete_signup" /\ last'.code = 200)
              => /\ last'.req \in DOMAIN oauth_temp
                 /\ last'.req \notin DOMAIN oauth_temp'
                 /\ last'.body[1] = "bearer"
           /\ nextToken' >= nextToken
           /\ \A t \in DOMAIN oauth_temp' \ DOMAIN oauth_temp :
                 /\ t = TokenName(nextToken)
                 /\ nextToken' = nextToken + 1
           /\ (last'.op = "complete_signup" /\ SignupRoleValid(last'.arg)
               /\ Issued(last'.req) /\ last'.req \notin DOMAIN oauth_temp)
              => last'.code = 400 ]_vars

\* An issued token has just been consumed by a successful complete_signup.
C12_Witness ==
    /\ last.op = "complete_signup"
    /\ last.code = 200
    /\ Issued(last.req)
    /\ last.req \notin DOMAIN oauth_temp

\* The stored users the claim counts as matching a provider profile.
ProfileMatches(provider, email, sub) ==
    {i \in UserIds : \/ /\ users[i].oauth_provider = provider
                        /\ users[i].oauth_provider_id = sub
                     \/ users[i].email = email}

\* C13: a provider callback (Google or LinkedIn) that got a profile answers
\* with a bearer token of a matching user whenever a stored user matches
\* the profile by (provider, provider id) or by email, and stashes an
\* opaque token only when no stored user matches either way.
C13_CallbackMatchesByIdOrEmail ==
    \A p \in {"google", "linkedin"} :
        (last.op = p \o "_callback" /\ last.req /= None)
        => LET m == ProfileMatches(p, last.req, last.arg)
           IN  /\ m /= {} => /\ last.body[1] = "bearer"
                             /\ \E i \in m : last.body[2] = users[i].email
               /\ last.body[1] = "temp_token" => m = {}

HasPassword(u) == u.hashed_password /= None
HasOAuth(u) == u.oauth_provider /= None /\ u.oauth_provider_id /= None

\* C14 (as stated): no stored user has both a password hash and an OAuth
\* identity.
C14_HashXorOAuth ==
    \A i \in UserIds : ~(HasPassword(users[i]) /\ HasOAuth(users[i]))

\* C14 (amended): every stored user has a password hash or an OAuth
\* identity; a user comes to have both only when a complete_signup that
\* answers 200 links the stashed profile onto the already stored user of
\* the same email, whose password hash it keeps; register and a
\* complete_signup that creates the user never store both.
C14_BothOnlyByLinking ==
    /\ [](\A i \in UserIds : HasPassword(users[i]) \/ HasOAuth(users[i]))
    /\ [][ \A i \in DOMAIN users' :
             (/\ HasPassword(users'[i])
              /\ HasOAuth(users'[i])
              /\ ~(i \in UserIds /\ HasPassword(users[i])
                   /\ HasOAuth(users[i])))
             => /\ last'.op = "complete_signup"
                /\ last'.code = 200
                /\ i \in UserIds
                /\ HasPassword(users[i])
                /\ users'[i].hashed_password = users[i].hashed_password
                /\ users'[i].email = last'.body[2] ]_vars

\* A password account has just been linked to a provider profile.
C14_Witness ==
    /\ last.op = "complete_signup"
    /\ last.code = 200
    /\ \E i \in UserIds : /\ users[i].email = last.body[2]
                          /\ HasPassword(users[i])
                          /\ HasOAuth(users[i])

(***************************************************************************)
(* Properties of the employer-profile store.                               *)
(***************************************************************************)
\* C15: the profile store never holds two profiles with the same
\* (company_name, tenant_id), whatever bookings were confirmed, bookings
\* without a company name included.
C15_OneProfilePerCompany ==
    \A p, q \in DOMAIN profiles :
        (/\ profiles[p].company_name = profiles[q].company_name
         /\ profiles[p].tenant_id = profiles[q].tenant_id)
        => p = q

(***************************************************************************)
(* Properties of the waitlist.                                             *)
(***************************************************************************)
\* C16: a waitlist signup whose lower-cased email is already stored
\* answers 409 and stores nothing; no two entries share an email; and no
\* request removes an entry or changes its email, source or created_at.
C16_DuplicateWaitlistConflict ==
    /\ [](\A i, j \in DOMAIN waitlist :
            waitlist[i].email = waitlist[j].email => i = j)
    /\ [][ /\ (last'.op = "join_waitlist"
               /\ \E i \in DOMAIN waitlist :
                    waitlist[i].email = lower(last'.req))
              => /\ last'.code = 409
                 /\ waitlist' = waitlist
           /\ Len(waitlist') >= Len(waitlist)
           /\ \A i \in DOMAIN waitlist : waitlist'[i] = waitlist[i] ]_vars

\* An address that differs from a stored one only by case has just been
\* refused, and the stored entry still has its earlier created_at.
C16_Witness ==
    /\ last.op = "join_waitlist"
    /\ last.code = 409
    /\ last.req /= lower(last.req)
    /\ \E i \in DOMAIN waitlist : /\ waitlist[i].email = lower(last.req)
                                  /\ waitlist[i].created_at < now - 1

(***************************************************************************)
(* Properties of the booking scenario and of the access rules.             *)
(***************************************************************************)
\* availability(d) lists slot s.
SlotListed(d, s) == \E r \in DOMAIN taken_slots(d) : taken_slots(d)[r] = s

\* C17: for the booking b of date D and slot S that a request addresses:
\* after create b is pending and availability(D) lists S; after a confirm
\* of the pending b that answers 200 b is confirmed with a non-empty
\* meeting_url and availability(D) still lists S; after a cancel of the
\* confirmed b that answers 200, with no other booking on D, b is
\* cancelled and availability(D) does not list S.
C17_Lifecycle ==
    [][ \A d \in Dates, s \in TimeSlots :
          LET t == last'.target
          IN  (/\ t \in DOMAIN bookings'
               /\ bookings'[t].date = d
               /\ bookings'[t].time_slot = s)
              => /\ (last'.op = "create" /\ last'.code = 201)
                    => /\ bookings'[t].status = "pending"
                       /\ SlotListed(d, s)'
                 /\ (IsSetStatus(last', "pending", "confirmed")
                     /\ last'.code = 200)
                    => /\ bookings'[t].status = "confirmed"
                       /\ Truthy(bookings'[t].meeting_url)
                       /\ SlotListed(d, s)'
                 /\ (/\ IsSetStatus(last', "confirmed", "cancelled")
                     /\ last'.code = 200
                     /\ \A b \in DOMAIN bookings' :
                          bookings'[b].date = d => b = t)
                    => /\ bookings'[t].status = "cancelled"
                       /\ ~SlotListed(d, s)' ]_vars

\* The end of the scenario: availability of a date whose only booking was
\* confirmed (it has a meeting_url) and then cancelled lists nothing.
C17_Witness ==
    /\ last.op = "availability"
    /\ DOMAIN last.body = {}
    /\ \E b \in BookingIds :
         /\ bookings[b].date = last.req
         /\ bookings[b].status = "cancelled"
         /\ Truthy(bookings[b].meeting_url)
         /\ \A c \in BookingIds : bookings[c].date = last.req => c = b

\* C18: a set_status or delete request of a user without the admin flag
\* answers 403, calls no collaborator and leaves the booking and profile
\* stores unchanged; and a stored booking is changed or removed only by a
\* set_status or delete request of an admin that addresses it (never by
\* create, the three reads or availability).
C18_AdminOnlyMutation ==
    [][ /\ (/\ last'.op \in {"set_status", "delete"}
            /\ ~users[last'.actor].is_superuser)
           => /\ last'.code = 403
              /\ last'.calls = <<>>
              /\ bookings' = bookings
              /\ profiles' = profiles
        /\ \A b \in BookingIds :
             (b \notin DOMAIN bookings' \/ bookings'[b] /= bookings[b])
             => /\ last'.op \in {"set_status", "delete"}
                /\ users[last'.actor].is_superuser
                /\ last'.target = b
                /\ last'.code \in {200, 204} ]_vars

\* An employer has just tried to confirm a pending booking.
C18_Witness ==
    /\ last.op = "set_status"
    /\ ~users[last.actor].is_superuser
    /\ last.code = 403
    /\ last.req = "confirmed"
    /\ last.target \in BookingIds
    /\ bookings[last.target].status = "pending"

\* C20: an admin's set_status on a booking id that is not stored answers
\* 404, and on a stored booking with a status outside the three values
\* answers 400; either way no collaborator is called and the booking and
\* profile stores are unchanged.
C20_MissingOrInvalidRefused ==
    [][ (last'.op = "set_status" /\ users[last'.actor].is_superuser)
        => /\ last'.target \notin BookingIds
              => /\ last'.code = 404
                 /\ last'.calls = <<>>
                 /\ bookings' = bookings
                 /\ profiles' = profiles
           /\ (/\ last'.target \in BookingIds
               /\ last'.req \notin {"pending", "confirmed", "cancelled"})
              => /\ last'.code = 400
                 /\ last'.calls = <<>>
                 /\ bookings' = bookings
                 /\ profiles' = profiles ]_vars

\* A confirmation has just been asked for a booking that was deleted after
\* it had left a profile behind.
C20_Witness ==
    /\ last.op = "set_status"
    /\ users[last.actor].is_superuser
    /\ last.target \notin BookingIds
    /\ last.req = "confirmed"
    /\ last.code = 404
    /\ profiles /= <<>>

\* C19: every create request answers 201 and stores one new booking that
\* is pending, owned by the caller, with meeting_url, calendar_event_id
\* and employer_profile_id unset, whether the notification succeeded or
\* not, and leaves the stored bookings as they were.
C19_CreateStoresPending ==
    [][ last'.op = "create"
        => /\ last'.code = 201
           /\ last'.target \in DOMAIN bookings' \ BookingIds
           /\ bookings'[last'.target].status = "pending"
           /\ bookings'[last'.target].employer_id = last'.actor
           /\ bookings'[last'.target].meeting_url = None
           /\ bookings'[last'.target].calendar_event_id = None
           /\ bookings'[last'.target].employer_profile_id = NoId
           /\ \A b \in BookingIds : bookings'[b] = bookings[b] ]_vars

BriefFailed(a) == ~a.key \/ a.fetch \in {"raise", ""} \/ a.llm.raised

NotJson(a) ==
    /\ ~BriefFailed(a)
    /\ a.llm.lines \in {<<"prose">>, <<Fence, "prose", Fence>>}

AiFields ==
    {"ai_industry", "ai_company_size", "ai_company_overview",
     "ai_hiring_needs", "ai_talking_points", "ai_red_flags"}

C26_MergeKeepsMissingFields ==
    [][ (IsSetStatus(last', "pending", "confirmed")
         /\ last'.code = 200
         /\ Called(last', "generate_pre_call_brief")
         /\ last'.arg.result \in {"empty", "raw"}
         /\ profiles /= <<>>)
        => \A p \in DOMAIN profiles :
              /\ \A f \in AiFields : profiles'[p][f] = profiles[p][f]
              /\ profiles'[p].recruiter_notes = profiles[p].recruiter_notes
              /\ profiles'[p].relationship_status
                   = profiles[p].relationship_status ]_vars

\* C23: a confirm request that read the booking as pending runs the
\* whole confirm block whatever has been committed since: it calls the
\* conferencing collaborator even when another request has confirmed the
\* booking meanwhile, then the calendar and notification collaborators,
\* and its commit stores its own meeting_url and the calendar_event_id it
\* created over the ones stored before.
C23_ConfirmsNotSerialized ==
    [][ \A r \in Requests :
          (/\ inflight[r] /= <<>>
           /\ inflight'[r] = <<>>
           /\ inflight[r][1].req = "confirmed"
           /\ inflight[r][1].row.status = "pending")
          => /\ Called(last', "create_meeting")
             /\ last'.code = 200
                => /\ Called(last', "create_calendar_event")
                   /\ Called(last', "notify_booking_confirmed")
                   /\ bookings'[last'.target].status = "confirmed"
                   /\ bookings'[last'.target].meeting_url = last'.arg.zoom
                   /\ Truthy(last'.arg.cal)
                      => bookings'[last'.target].calendar_event_id
                           = last'.arg.cal ]_vars

C23_Witness ==
    /\ last.op = "set_status" /\ last.req = "confirmed"
    /\ last.old = "pending" /\ last.code = 200
    /\ last.arg.stored = "confirmed"
    /\ last.arg.stored_url = "zoom/1"
    /\ CalledWith(last, "create_meeting", TRUE)
    /\ bookings[last.target].meeting_url = "zoom/2"
    /\ bookings[last.target].calendar_event_id = "ev2"

\* C24: a booking whose status is cancelled has no calendar_event_id, in
\* every state that interleaved set_status requests can reach.
C24_CancelledHasNoEvent ==
    \A b \in BookingIds :
        bookings[b].status = "cancelled"
        => bookings[b].calendar_event_id = None

\* C25: in a confirm transition the conferencing call comes first; when
\* it fails nothing else is attempted, and when it succeeds the calendar
\* event, the brief (for a booking that has a website), the profile
\* upsert and the confirmation notification are each attempted once, in
\* that order, whatever the outcome of the steps before; the status is
\* stored only after all of them.
StepsAfterZoom(bk) ==
    <<"create_meeting", "create_calendar_event">>
    \o (IF Truthy(bk.website_url) THEN <<"generate_pre_call_brief">>
        ELSE <<>>)
    \o <<"upsert_profile", "notify_booking_confirmed">>

C25_FixedOrder ==
    [][ (last'.op = "set_status" /\ users[last'.actor].is_superuser
         /\ last'.req = "confirmed" /\ last'.old \in {"pending", "cancelled"})
        => LET fns == [i \in DOMAIN last'.calls |-> last'.calls[i].fn]
           IN  IF CalledWith(last', "create_meeting", FALSE)
               THEN fns = <<"create_meeting">> /\ bookings' = bookings
               ELSE fns = StepsAfterZoom(bookings[last'.target]) ]_vars

\* C27: however register and complete_signup requests for one email
\* interleave, at most one stored user has the email; a request that
\* fails changes no user, and a request that succeeds leaves exactly one
\* user with the email, the one its token names.
WithEmail(us, email) == {i \in DOMAIN us : us[i].email = email}

C27_OneUserPerEmail ==
    [][ \A r \in Requests :
          (inflight[r] /= <<>> /\ inflight'[r] = <<>>)
          => LET email == inflight[r][1].email
             IN  /\ Cardinality(WithEmail(users', email)) <= 1
                 /\ last'.code \in {400, 500} => users' = users
                 /\ last'.code \notin {400, 500}
                    => /\ Cardinality(WithEmail(users', email)) = 1
                       /\ last'.op = "complete_signup"
                          => last'.body = <<"bearer", email>> ]_vars

C27_Witness ==
    /\ last.op = "complete_signup" /\ last.code = 500
    /\ Cardinality(WithEmail(users, last.req)) = 1
    /\ \E i \in WithEmail(users, last.req) : users[i].oauth_provider = None
    /\ last.arg \in DOMAIN oauth_temp

\* C28: in sequential runs a confirmed booking has a non-empty
\* meeting_url, and meeting_url is unset until a conferencing call for
\* the booking has succeeded: a new booking has none, and the field
\* changes only in a set_status on that booking whose create_meeting
\* call succeeded.
C28_ConfirmedHasMeetingUrl ==
    [][ \A b \in DOMAIN bookings' :
          /\ bookings'[b].status = "confirmed"
                => Truthy(bookings'[b].meeting_url)
          /\ b \notin BookingIds => bookings'[b].meeting_url = None
          /\ (b \in BookingIds
              /\ bookings'[b].meeting_url /= bookings[b].meeting_url)
                => /\ last'.op = "set_status"
                   /\ last'.target = b
                   /\ CalledWith(last', "create_meeting", TRUE)
                   /\ bookings'[b].meeting_url \in JoinUrls ]_vars

C28_Witness ==
    /\ last.op = "set_status" /\ last.req = "confirmed"
    /\ last.old = "pending" /\ last.code = 200
    /\ bookings[last.target].status = "confirmed"
    /\ bookings[last.target].meeting_url \in JoinUrls

\* C29: create never looks at the stored bookings: a request of a user
\* with a name answers 201 and adds a pending booking for the requested
\* date and slot, whatever is stored, leaving the other bookings as they
\* are; and availability(date) lists a slot once per pending or confirmed
\* booking of that date and slot.
LiveRows(date, slot) ==
    {b \in BookingIds : /\ bookings[b].date = date
                        /\ bookings[b].time_slot = slot
                        /\ bookings[b].status \in {"pending", "confirmed"}}

C29_CreateIgnoresTakenSlots ==
    /\ [][ (last'.op = "create" /\ users[last'.actor].full_name /= None)
           => /\ last'.code = 201
              /\ DOMAIN bookings' = BookingIds \cup {last'.target}
              /\ last'.target \notin BookingIds
              /\ bookings'[last'.target].status = "pending"
              /\ \A b \in BookingIds : bookings'[b] = bookings[b] ]_vars
    /\ [](last.op = "availability"
          => \A slot \in TimeSlots :
               Cardinality({r \in DOMAIN last.body : last.body[r] = slot})
                 = Cardinality(LiveRows(last.req, slot)))

\* Two live bookings share a date and slot and the answer lists it twice.
C29_Witness ==
    /\ last.op = "availability"
    /\ \E r1, r2 \in DOMAIN last.body :
         /\ r1 /= r2
         /\ last.body[r1] = last.body[r2]
         /\ bookings[r1].status = "confirmed"
         /\ bookings[r2].status = "pending"
         /\ r1 < r2

\* C30: no operation sets is_superuser: a request never changes the flag
\* of a stored user and every user it creates has the flag false; so in a
\* store that starts without an admin no user ever has the flag, and
\* every set_status, delete, list of bookings, profile read or update and
\* waitlist list answers 403 and changes nothing.
AdminOnlyOps ==
    {"set_status", "delete", "list_bookings", "get_profile", "list_profiles",
     "update_profile", "list_waitlist"}

C30_NoAdminEver ==
    /\ [](\A i \in UserIds : ~users[i].is_superuser)
    /\ [][ /\ \A i \in DOMAIN users' :
                users'[i].is_superuser
                  = (IF i \in UserIds THEN users[i].is_superuser ELSE FALSE)
           /\ last'.op \in AdminOnlyOps
                => /\ last'.code = 403
                   /\ bookings' = bookings
                   /\ profiles' = profiles ]_vars

\* A user who signed up through OAuth with user_type ADMIN has been
\* refused a status change.
C30_Witness ==
    /\ last.op = "set_status" /\ last.code = 403
    /\ last.target \in BookingIds
    /\ users[last.actor].user_type = "ADMIN"
    /\ users[last.actor].oauth_provider /= None
====
